---- MODULE Spec2Model ----
(***************************************************************************)
(* The election data synchronisation scripts: twelve one-shot scripts that *)
(* authenticate against the record store (pb.js), fetch a list of items    *)
(* from the source API (fetchPage / fetchData / fetchSourceData), and      *)
(* reconcile every item against one store collection (syncItem / syncData) *)
(* under a run driver (main).                                              *)
(*                                                                         *)
(* Every JavaScript value is modelled as a string, so that any two values  *)
(* can be compared with = the way the code compares them with ===.         *)
(***************************************************************************)
EXTENDS Integers, Sequences, FiniteSets, TLC

VARIABLES
    script,     \* which script this process runs
    cfg,        \* the environment: [creds, sourceUrl] present or not
    source,     \* the source API's data set: the sequence of items it serves
    store,      \* the script's target collection: the sequence of its records
    run,        \* number of the current process (one process per run)
    pc,         \* position of the process
    authValid,  \* pb.authStore.isValid
    userErr,    \* message of the failed user authentication, or "none"
    adminErr,   \* message of the failed admin authentication, or "none"
    fatalMsg,   \* message of the error that reached main's catch, or "none"
    exitCode,   \* exit status of the process, "none" while it runs
    page,       \* main's page counter
    items,      \* the items of the page being reconciled
    totalPages, \* pagination.totalPages as reported with that page
    idx,        \* index in items of the next item to reconcile
    stats,      \* main's counters
    verdicts,   \* the results syncItem returned in this run, in order
    caches,     \* partyCache / provinceCache / areaCache
    calls,      \* calls of authenticate() and requests issued by this
                \* process, by kind
    op,         \* what the last syncItem did: item, lookup, write, record
    budget,     \* failing store calls and fetches the environment may
                \* still inject
    summary,    \* number of times this process printed the summary
    prev,       \* how the previous run ended: "none", "done" or "exited"
    conc        \* two scripts at work on one collection at the same time:
                \* each one's item and position in syncItem, and the order
                \* of their store calls; NoConc while one script runs alone

vars == <<script, cfg, source, store, run, pc, authValid, userErr, adminErr,
          fatalMsg, exitCode, page, items, totalPages, idx, stats, verdicts,
          caches, calls, op, budget, summary, prev, conc>>

----------------------------------------------------------------------------
(* Bounds of the model *)

MaxItems == 2       \* items the source serves
MaxRuns == 2        \* consecutive runs of the script
MaxFaults == 1      \* failing store calls and fetches in one run
MaxRecords == 3     \* records of the target collection
MaxCalls == 3       \* calls of authenticate() by one client (SpecAuth)
PerPage == 1        \* items the source serves per page

----------------------------------------------------------------------------
(* JavaScript and store values *)

Undef == "undefined"        \* JavaScript undefined
Null == "null"              \* JavaScript null
Empty == ""                 \* the store's zero value of a field
Zero == "0"                 \* the number 0
Keys == {"A", "B"}          \* natural keys of source items
DataVals == {"1", "2"}      \* values of data fields

Scripts == {"parties", "partylistResults", "provinces", "candidatesLegacy",
            "areas", "referendum", "nationalStatistics", "candidateProfile",
            "candidateScore", "nationalParties", "provinceStatistics",
            "partylist"}

----------------------------------------------------------------------------
(* The scripts' configuration, as written in each file *)

\* CONFIG.POCKETBASE.COLLECTION
Collection(s) ==
    CASE s = "parties" -> "parties"
      [] s = "partylistResults" -> "partylistResults"
      [] s = "provinces" -> "provinces"
      [] s = "candidatesLegacy" -> "candidates"
      [] s = "areas" -> "areas"
      [] s = "referendum" -> "referendum"
      [] s = "nationalStatistics" -> "national"
      [] s = "candidateProfile" -> "candidates"
      [] s = "candidateScore" -> "candidates"
      [] s = "nationalParties" -> "parties"
      [] s = "provinceStatistics" -> "provinces"
      [] s = "partylist" -> "partylist"

\* the scripts whose main loops over fetchPage(page)
Paginated(s) ==
    s \in {"candidatesLegacy", "areas", "candidateProfile", "candidateScore",
           "partylist"}

\* the scripts whose source URL has a default when the environment has none
HasDefaultUrl(s) == s = "parties"

\* the scripts whose main ends its catch block with process.exit(1)
ExitsOnFatal(s) ==
    s \notin {"referendum", "nationalStatistics", "nationalParties",
              "provinceStatistics"}

\* the fields of the payload syncItem builds
PayloadFields(s) ==
    CASE s = "parties" ->
           {"name", "code", "abbreviation", "color", "logoUrl",
            "totalCandidates"}
      [] s = "partylistResults" ->
           {"totalVotes", "automaticSeats", "remainder", "remainderSeats",
            "totalSeats", "percentage", "party"}
      [] s = "provinces" -> {"name", "code", "region"}
      [] s = "candidatesLegacy" ->
           {"number", "name", "provinceCode", "provinceName", "areaNumber",
            "totalVotes", "rank", "percentage", "party", "province"}
      [] s = "areas" -> {"name", "number", "eligibleVoters", "province"}
      [] s = "referendum" ->
           {"number", "title", "agreeTotalVotes", "agreePercentage",
            "agreeRank", "disagreeTotalVotes", "disagreePercentage",
            "disagreeRank", "goodVotes", "totalVotes", "invalidVotes",
            "noVotes"}
      [] s = "nationalStatistics" ->
           {"goodVotes", "totalVotes", "invalidVotes", "noVotes",
            "eligibleVoters", "voterTurnoutPercentage", "stationsReported",
            "totalStations", "percentage"}
      [] s = "candidateProfile" ->
           {"name", "title", "firstName", "lastName", "photoUrl", "active",
            "number", "provinceCode", "provinceName", "areaNumber", "party",
            "province", "area"}
      [] s = "candidateScore" -> {"name", "totalVotes", "rank", "percentage"}
      [] s = "nationalParties" ->
           {"name", "totalVotes", "constituencySeats", "partyListSeats",
            "totalSeats", "percentage"}
      [] s = "provinceStatistics" ->
           {"goodVotes", "totalVotes", "invalidVotes", "noVotes",
            "eligibleVoters", "voterTurnoutPercentage", "stationsReported",
            "totalStations", "percentage"}
      [] s = "partylist" ->
           {"name", "number", "title", "firstName", "lastName",
            "pmCandidateRank", "active", "party"}

\* the fields syncItem's isChanged compares (none where there is no isChanged)
ComparedFields(s) ==
    CASE s = "parties" -> {}
      [] s = "partylistResults" ->
           {"totalVotes", "automaticSeats", "remainder", "remainderSeats",
            "totalSeats", "percentage"}
      [] s = "provinces" -> {}
      [] s = "candidatesLegacy" ->
           {"totalVotes", "rank", "percentage", "province"}
      [] s = "areas" -> {"eligibleVoters", "province", "number"}
      [] s = "referendum" ->
           {"agreeTotalVotes", "agreePercentage", "agreeRank",
            "disagreeTotalVotes", "disagreePercentage", "disagreeRank",
            "totalVotes", "title"}
      [] s = "nationalStatistics" ->
           {"goodVotes", "stationsReported", "percentage"}
      [] s = "candidateProfile" ->
           {"title", "firstName", "lastName", "photoUrl", "active", "party",
            "province", "area"}
      [] s = "candidateScore" -> {"totalVotes", "rank", "percentage"}
      [] s = "nationalParties" ->
           {"totalVotes", "constituencySeats", "partyListSeats", "totalSeats",
            "percentage"}
      [] s = "provinceStatistics" ->
           {"goodVotes", "totalVotes", "stationsReported", "percentage"}
      [] s = "partylist" ->
           {"number", "title", "firstName", "lastName", "pmCandidateRank",
            "active", "party"}

\* the field the lookup filter of getFirstListItem tests
KeyField(s) ==
    CASE s = "partylistResults" -> "party"
      [] s = "referendum" -> "number"
      [] s = "nationalStatistics" -> "none"
      [] OTHER -> "name"

\* what syncItem does with a found record and with a missing one
OnFound(s) ==
    CASE s = "parties" -> "update"
      [] s = "provinces" -> "skip"
      [] OTHER -> "diff"

\* a syncItem that never creates
OnMissingSkip(s) == "skip"

OnMissing(s) ==
    IF s \in {"candidateScore", "provinceStatistics"} THEN "skip" ELSE "create"

\* the relation caches syncItem resolves through
UsesParty(s) ==
    s \in {"partylistResults", "candidatesLegacy", "candidateProfile",
           "partylist"}

UsesProvince(s) == s \in {"candidatesLegacy", "areas", "candidateProfile"}

UsesArea(s) == s = "candidateProfile"

\* the stop rule after a page: "totalPages && page >= totalPages" where TRUE,
\* "page >= totalPages" where FALSE
GuardsTotalPages(s) == s \in {"candidateProfile", "partylist"}

\* the fields of a record of the collection: those some script writes, and one
\* ("note") that no script writes
CollectionFields(c) ==
    UNION {PayloadFields(s) : s \in {t \in Scripts : Collection(t) = c}}
        \cup {"note"}

----------------------------------------------------------------------------
(* Source items *)

\* An item of the source: key is its natural key (name, questionNumber,
\* provinceName, party.name; a partylist result has none but its party), v
\* the value its compared data fields carry, x the value its
\* other data fields carry, party and province the names of its relations,
\* shape what is missing from it ("ok": nothing).
Shapes(s) ==
    CASE s = "referendum" -> {"ok", "noAgree", "noOptions"}
      [] s = "nationalStatistics" -> {"ok", "noStatistics"}
      [] OTHER -> {"ok"}

\* the fields of the payload that carry neither the natural key, nor a
\* relation, nor a compared value
ExtraFields(s) ==
    PayloadFields(s)
        \ (ComparedFields(s)
             \cup {KeyField(s), "party", "province", "area", "provinceName"})

PartyNames == {"A", "B"}        \* the names of the records of 'parties'
ProvinceNames == {"V"}          \* the names of the records of 'provinces'
NoParty == "PX"                 \* a party name that 'parties' does not hold
NoProvince == "VX"              \* a province name that 'provinces' does not hold

\* an item that lacks a relation or a part carries the data values "1"
ItemsOf(s) ==
    {i \in [key : IF s \in {"nationalStatistics", "partylistResults"}
                    THEN {"A"} ELSE Keys,
            v : IF ComparedFields(s) \ {"party", "province", "area"} = {}
                  THEN {"1"} ELSE DataVals,
            x : IF ExtraFields(s) = {} THEN {"1"} ELSE DataVals,
            party : CASE s = "partylistResults" -> PartyNames \cup {NoParty}
                      [] UsesParty(s) -> {"A", NoParty}
                      [] OTHER -> {"A"},
            province : IF UsesProvince(s) THEN {"V", NoProvince} ELSE {"V"},
            shape : Shapes(s)] :
        (i.party = NoParty \/ i.province = NoProvince \/ i.shape # "ok")
            => (i.v = "1" /\ i.x = "1")}

\* The data sets the source may serve to script s. Natural keys are
\* interchangeable, so the first item is given key "A"; an item names either
\* relations the store holds or relations it does not hold.
WellFormed(s, src) ==
    /\ Len(src) > 0 => src[1].key = "A"
    /\ \A i \in 1..Len(src) :
          (UsesParty(s) /\ UsesProvince(s))
              => (src[i].party = NoParty <=> src[i].province = NoProvince)

SeqsUpTo(S, n) == UNION {[1..k -> S] : k \in 0..n}

Sources(s) ==
    IF s = "nationalStatistics"
    THEN [1..1 -> ItemsOf(s)]
    ELSE {src \in SeqsUpTo(ItemsOf(s), MaxItems) : WellFormed(s, src)}

----------------------------------------------------------------------------
(* The record store *)

\* the records of the relation collections, which no run of one script changes
PartyRecords == {[name |-> n, id |-> "p" \o n] : n \in PartyNames}
ProvinceRecords == {[name |-> n, id |-> "v" \o n] : n \in ProvinceNames}
AreaRecords == {[province |-> "vV", number |-> "1", id |-> "aV1"]}

\* JavaScript truthiness of a value
Truthy(v) == v \notin {Undef, Null, Empty, Zero}

\* what the store keeps of a written value: JSON.stringify drops undefined
\* (the field is not written), and the store keeps its zero value for null
Stored(old, v) ==
    CASE v = Undef -> old
      [] v = Null -> Empty
      [] OTHER -> v

\* collection.create(payload): a new record, last in the collection
StoreCreate(st, c, payload) ==
    Append(st, [f \in CollectionFields(c) |->
                   IF f \in DOMAIN payload THEN Stored(Empty, payload[f])
                   ELSE Empty])

\* an update that replaces the record by the payload: the fields the payload
\* lacks are emptied
StoreUpdateWhole(st, id, payload) ==
    [st EXCEPT ![id] =
        [f \in DOMAIN st[id] |->
            IF f \in DOMAIN payload THEN Stored(st[id][f], payload[f])
            ELSE Empty]]

\* collection.update(id, payload): the payload's fields of record id
StoreUpdate(st, id, payload) ==
    [st EXCEPT ![id] =
        [f \in DOMAIN st[id] |->
            IF f \in DOMAIN payload THEN Stored(st[id][f], payload[f])
            ELSE st[id][f]]]

\* collection.getFirstListItem(`field="value"`): the id of the first record
\* that matches, 0 when none does (the store answers 404)
GetFirstListItem(st, field, value) ==
    IF \E i \in 1..Len(st) : st[i][field] = value
    THEN CHOOSE i \in 1..Len(st) :
            /\ st[i][field] = value
            /\ \A j \in 1..(i - 1) : st[j][field] # value
    ELSE 0

\* collection.getList(1, 1): the id of the first record, 0 when there is none
GetListFirst(st) == IF Len(st) > 0 THEN 1 ELSE 0

----------------------------------------------------------------------------
(* Relation caches: getPartyId, getProvinceId, getAreaId *)

PartyPairs == {<<r.name, r.id>> : r \in PartyRecords}
ProvincePairs == {<<r.name, r.id>> : r \in ProvinceRecords}
AreaPairs == {<<(<<r.province, r.number>>), r.id>> : r \in AreaRecords}

NoCache == [loaded |-> FALSE, map |-> {}]       \* let cache = null

\* a resolution that builds the Map from getFullList() at every call
LoadCacheAlways(cache, pairs, fails) ==
    [loaded |-> TRUE, map |-> IF fails THEN {} ELSE pairs]

\* the first call builds the Map from getFullList(); when that call fails the
\* Map stays empty
LoadCache(cache, pairs, fails) ==
    IF cache.loaded THEN cache
    ELSE [loaded |-> TRUE, map |-> IF fails THEN {} ELSE pairs]

\* a cache.get(key) that answers null for a key the Map does not hold
CacheGetOrNull(map, key) ==
    IF \E e \in map : e[1] = key
    THEN (CHOOSE e \in map : e[1] = key)[2]
    ELSE Null

\* cache.get(key)
CacheGet(map, key) ==
    IF \E e \in map : e[1] = key
    THEN (CHOOSE e \in map : e[1] = key)[2]
    ELSE Undef

\* the caches after syncItem resolved the item's relations, fl telling which
\* getFullList() calls fail
ResolvedCaches(s, cs, item, fl) ==
    LET party == IF UsesParty(s)
                 THEN LoadCache(cs.party, PartyPairs, fl.party) ELSE cs.party
        province == IF UsesProvince(s)
                    THEN LoadCache(cs.province, ProvincePairs, fl.province)
                    ELSE cs.province
        provinceId == IF UsesProvince(s)
                      THEN CacheGet(province.map, item.province) ELSE Undef
        area == IF UsesArea(s) /\ Truthy(provinceId) /\ Truthy(item.x)
                THEN LoadCache(cs.area, AreaPairs, fl.area) ELSE cs.area
    IN [party |-> party, province |-> province, area |-> area]

\* partyId, provinceId and areaId as syncItem resolves them from the caches
ResolvedIds(s, cs, item) ==
    LET provinceId == IF UsesProvince(s)
                      THEN CacheGet(cs.province.map, item.province) ELSE Undef
    IN [party |-> IF UsesParty(s)
                  THEN CacheGet(cs.party.map, item.party) ELSE Undef,
        province |-> provinceId,
        area |-> IF UsesArea(s) /\ Truthy(provinceId) /\ Truthy(item.x)
                 THEN CacheGet(cs.area.map, <<provinceId, item.x>>)
                 ELSE Null]

\* the getFullList() calls the resolution issued, and those that failed
LoadsIssued(cs, cs2) ==
    Cardinality({r \in {"party", "province", "area"} :
                    ~cs[r].loaded /\ cs2[r].loaded})

LoadsFailed(cs, cs2, fl) ==
    Cardinality({r \in {"party", "province", "area"} :
                    ~cs[r].loaded /\ cs2[r].loaded /\ fl[r]})

----------------------------------------------------------------------------
(* syncItem / syncData *)

\* the payload syncItem builds from the item
Payload(s, item, ids) ==
    [f \in PayloadFields(s) |->
        CASE f = "party" -> ids.party
          [] f = "province" -> ids.province
          [] f = "area" -> ids.area
          [] f = "provinceName" -> item.province
          [] f = KeyField(s) -> item.key
          [] s = "referendum" /\ item.shape = "noAgree"
               /\ f \in {"agreeTotalVotes", "agreePercentage", "agreeRank"}
               -> Zero
          [] f \in ComparedFields(s) -> item.v
          [] OTHER -> item.x]

\* isChanged: some compared field of the stored record differs (!==) from the
\* payload's
IsChanged(s, existing, payload) ==
    \E f \in ComparedFields(s) : existing[f] # payload[f]

\* whether syncItem issues its lookup: the partylist results sync looks up
\* only "if (partyId)"
LooksUp(s, ids) == s = "partylistResults" => Truthy(ids.party)

\* the id of the record the lookup answers, 0 when it answers none
Lookup(s, st, item, ids) ==
    CASE s = "nationalStatistics" -> GetListFirst(st)
      [] s = "partylistResults" -> GetFirstListItem(st, "party", ids.party)
      [] OTHER -> GetFirstListItem(st, KeyField(s), item.key)

\* whether the item makes syncItem throw before its try block: the
\* referendum sync calls item.options.find(...)
Throws(s, item) == s = "referendum" /\ item.shape = "noOptions"

\* whether syncData rejects the data before any store call
Rejects(s, item) == s = "nationalStatistics" /\ item.shape = "noStatistics"

\* whether a failed lookup (a status other than 404) is thrown again to the
\* outer catch; the national statistics sync only warns
RethrowsLookupError(s) == s # "nationalStatistics"

\* the lookup of syncItem: kind in none/error/found/missing, id the record the
\* store answered (0 when it answered none)
LookupResult(s, st, item, ids, fails) ==
    CASE ~LooksUp(s, ids) -> [kind |-> "none", id |-> 0]
      [] fails -> [kind |-> "error", id |-> 0]
      [] Lookup(s, st, item, ids) # 0 ->
           [kind |-> "found", id |-> Lookup(s, st, item, ids)]
      [] OTHER -> [kind |-> "missing", id |-> 0]

\* the store write syncItem decides on after its lookup: none, create, update
Decision(s, st, payload, found) ==
    CASE found.kind = "error" /\ RethrowsLookupError(s) -> "none"
      [] found.kind = "found" ->
           IF OnFound(s) = "update"
              \/ (OnFound(s) = "diff" /\ IsChanged(s, st[found.id], payload))
           THEN "update" ELSE "none"
      [] OTHER -> IF OnMissing(s) = "create" THEN "create" ELSE "none"

\* the write as it went: createError / updateError when the store call fails
Attempt(write, fails) ==
    IF write # "none" /\ fails THEN write \o "Error" ELSE write

\* what syncItem returns
Verdict(s, kind, write) ==
    CASE kind = "error" /\ RethrowsLookupError(s) -> "failed"
      [] write \in {"createError", "updateError"} -> "failed"
      [] write = "create" -> "created"
      [] write = "update" -> "updated"
      [] OTHER -> "skipped"

\* the collection after the write
Written(s, st, id, payload, write) ==
    CASE write = "create" -> StoreCreate(st, Collection(s), payload)
      [] write = "update" -> StoreUpdate(st, id, payload)
      [] OTHER -> st

\* The outcome of syncItem: the verdict, the store and the caches after it,
\* and what it did: op.lookup in none/found/missing/error, op.write in
\* none/create/update/createError/updateError, op.id the record found or
\* created, op.before that record as it was found.
Outcome(s, st, cs, cs2, item, fl, payload, found, write) ==
    [verdict |-> Verdict(s, found.kind, write),
     store |-> Written(s, st, found.id, payload, write),
     caches |-> cs2,
     op |-> [item |-> item, lookup |-> found.kind, write |-> write,
             id |-> IF write = "create" THEN Len(st) + 1 ELSE found.id,
             before |-> IF found.id # 0 THEN st[found.id] ELSE <<>>,
             payload |-> payload],
     loads |-> LoadsIssued(cs, cs2),
     nfaults |-> LoadsFailed(cs, cs2, fl)
                   + (IF found.kind = "error" THEN 1 ELSE 0)
                   + (IF write \in {"createError", "updateError"}
                      THEN 1 ELSE 0)]

\* syncItem from the lookup on, for the payload it built
SyncPayload(s, st, cs, cs2, item, fl, payload, found) ==
    Outcome(s, st, cs, cs2, item, fl, payload, found,
            Attempt(Decision(s, st, payload, found), fl.write))

\* syncItem from the payload on, for the relation ids it resolved
SyncResolved(s, st, cs, cs2, item, fl, ids) ==
    SyncPayload(s, st, cs, cs2, item, fl, Payload(s, item, ids),
                LookupResult(s, st, item, ids, fl.lookup))

\* syncItem for the caches as its relation lookups left them
SyncCached(s, st, cs, cs2, item, fl) ==
    SyncResolved(s, st, cs, cs2, item, fl, ResolvedIds(s, cs2, item))

\* The whole of syncItem / syncData on one item, for a store st and caches
\* cs; fl tells which store calls fail.
SyncItemResult(s, st, cs, item, fl) ==
    IF Rejects(s, item)
    THEN [verdict |-> "failed", store |-> st, caches |-> cs,
          op |-> [item |-> item, lookup |-> "none", write |-> "none",
                  id |-> 0, before |-> <<>>, payload |-> <<>>],
          loads |-> 0, nfaults |-> 0]
    ELSE SyncCached(s, st, cs, ResolvedCaches(s, cs, item, fl), item, fl)

----------------------------------------------------------------------------
(* The state of a fresh process *)

NoTotal == [present |-> FALSE, n |-> 0]     \* pagination.totalPages undefined

NoCalls == [authenticate |-> 0, auth |-> 0, fetch |-> 0, fullList |-> 0, lookup |-> 0,
            create |-> 0, update |-> 0]

NoStats == [created |-> 0, updated |-> 0, skipped |-> 0, failed |-> 0]

NoCaches == [party |-> NoCache, province |-> NoCache, area |-> NoCache]

NoOp == [item |-> <<>>, lookup |-> "none", write |-> "none", id |-> 0,
         before |-> <<>>, payload |-> <<>>]

NoConc == <<>>

NoSource == [known |-> FALSE, hasArray |-> TRUE, items |-> <<>>,
             totalPages |-> NoTotal]

AuthMsgs == {"e1", "e2"}        \* messages of authentication errors

\* a record of collection c that agrees with the item of natural key k whose
\* data fields carry "1" and whose relations resolve
RecordFor(c, k) ==
    [f \in CollectionFields(c) |->
        CASE f = "name" -> k
          [] f = "number" /\ c = "referendum" -> k
          [] f = "party" -> IF c = "partylistResults" THEN "p" \o k ELSE "pA"
          [] f = "province" -> "vV"
          [] f = "area" -> "aV1"
          [] f = "provinceName" -> "V"
          [] OTHER -> "1"]

\* the collections the script may find: no record, or one record per natural
\* key of some keys
InitStores(s) ==
    LET c == Collection(s)
    IN IF s = "nationalStatistics"
       THEN {<<>>, <<RecordFor(c, "A")>>}
       ELSE {<<>>, <<RecordFor(c, "A")>>, <<RecordFor(c, "B")>>,
             <<RecordFor(c, "A"), RecordFor(c, "B")>>}

FreshProcess ==
    /\ pc = "load"
    /\ authValid = FALSE
    /\ userErr = "none"
    /\ adminErr = "none"
    /\ fatalMsg = "none"
    /\ exitCode = "none"
    /\ page = 1
    /\ items = <<>>
    /\ totalPages = NoTotal
    /\ idx = 1
    /\ stats = NoStats
    /\ verdicts = <<>>
    /\ caches = NoCaches
    /\ calls = NoCalls
    /\ op = NoOp
    /\ summary = 0

Init ==
    /\ script \in Scripts
    /\ cfg \in {c \in [creds : BOOLEAN, sourceUrl : BOOLEAN] :
                  HasDefaultUrl(script) => c.sourceUrl}
    /\ source = NoSource
    /\ store \in InitStores(script)
    /\ run = 1
    /\ budget = MaxFaults
    /\ prev = "none"
    /\ conc = NoConc
    /\ FreshProcess

----------------------------------------------------------------------------
(* pb.js *)

\* pb.js without its validation block: main() runs whatever the credentials
LoadUnchecked ==
    /\ pc = "load"
    /\ pc' = "auth"
    /\ UNCHANGED <<conc, script, cfg, source, store, run, authValid, userErr,
                   adminErr, fatalMsg, exitCode, page, items, totalPages, idx,
                   stats, verdicts, caches, calls, op, budget, summary, prev>>

\* Module load of pb.js, before main() runs: the credentials are validated
\* and process.exit(1) is called when one is missing
Load ==
    /\ pc = "load"
    /\ IF cfg.creds
       THEN pc' = "auth" /\ exitCode' = exitCode
       ELSE pc' = "exited" /\ exitCode' = "1"
    /\ UNCHANGED <<conc, script, cfg, source, store, run, authValid, userErr,
                   adminErr, fatalMsg, page, items, totalPages, idx, stats,
                   verdicts, caches, calls, op, budget, summary, prev>>

\* authenticate() without its "if (pb.authStore.isValid)": every call sends the
\* user authentication request
AuthenticateAnew ==
    /\ pc = "auth"
    /\ pc' = "authUser"
    /\ calls' = [calls EXCEPT !.authenticate = @ + 1, !.auth = @ + 1]
    /\ UNCHANGED <<conc, script, cfg, source, store, run, authValid, userErr,
                   adminErr, fatalMsg, exitCode, page, items, totalPages, idx,
                   stats, verdicts, caches, op, budget, summary, prev>>

\* authenticate(): returns the client when the session is valid, else sends
\* the user authentication request
Authenticate ==
    /\ pc = "auth"
    /\ IF authValid
       THEN /\ pc' = "fetch"
            /\ calls' = [calls EXCEPT !.authenticate = @ + 1]
       ELSE /\ pc' = "authUser"
            /\ calls' = [calls EXCEPT !.authenticate = @ + 1,
                                      !.auth = @ + 1]
    /\ UNCHANGED <<conc, script, cfg, source, store, run, authValid, userErr,
                   adminErr, fatalMsg, exitCode, page, items, totalPages, idx,
                   stats, verdicts, caches, op, budget, summary, prev>>

\* the user authentication answers: on success authenticate() returns, on
\* failure the admin authentication request is sent
AuthUserResult ==
    /\ pc = "authUser"
    /\ \E ok \in BOOLEAN, msg \in AuthMsgs :
          IF ok
          THEN /\ authValid' = TRUE
               /\ pc' = "fetch"
               /\ UNCHANGED <<userErr, calls>>
          ELSE /\ userErr' = msg
               /\ pc' = "authAdmin"
               /\ calls' = [calls EXCEPT !.auth = @ + 1]
               /\ UNCHANGED authValid
    /\ UNCHANGED <<conc, script, cfg, source, store, run, adminErr, fatalMsg,
                   exitCode, page, items, totalPages, idx, stats, verdicts,
                   caches, op, budget, summary, prev>>

\* the message of the error authenticate() throws for the caught error
AuthFailure(msg) == "Authentication Failed: " \o msg

\* the admin authentication answers, the error thrown on failure carrying the
\* message of the user authentication's error
AuthAdminResultFirstMessage ==
    /\ pc = "authAdmin"
    /\ \E ok \in BOOLEAN, msg \in AuthMsgs :
          IF ok
          THEN /\ authValid' = TRUE
               /\ pc' = "fetch"
               /\ userErr' = "none"
               /\ UNCHANGED <<adminErr, fatalMsg>>
          ELSE /\ adminErr' = msg
               /\ fatalMsg' = AuthFailure(userErr)
               /\ pc' = "fatal"
               /\ UNCHANGED <<authValid, userErr>>
    /\ UNCHANGED <<conc, script, cfg, source, store, run, exitCode, page,
                   items, totalPages, idx, stats, verdicts, caches, calls, op,
                   budget, summary, prev>>

\* an authenticate() that returns also when the admin authentication failed
AuthAdminResultReturns ==
    /\ pc = "authAdmin"
    /\ \E ok \in BOOLEAN, msg \in AuthMsgs :
          IF ok
          THEN /\ authValid' = TRUE
               /\ pc' = "fetch"
               /\ userErr' = "none"
               /\ UNCHANGED <<adminErr, fatalMsg>>
          ELSE /\ adminErr' = msg
               /\ pc' = "fetch"
               /\ UNCHANGED <<authValid, userErr, fatalMsg>>
    /\ UNCHANGED <<conc, script, cfg, source, store, run, exitCode, page,
                   items, totalPages, idx, stats, verdicts, caches, calls, op,
                   budget, summary, prev>>

\* the admin authentication answers: on success authenticate() returns, on
\* failure it throws to main's catch
AuthAdminResult ==
    /\ pc = "authAdmin"
    /\ \E ok \in BOOLEAN, msg \in AuthMsgs :
          IF ok
          THEN /\ authValid' = TRUE
               /\ pc' = "fetch"
               /\ userErr' = "none"
               /\ UNCHANGED <<adminErr, fatalMsg>>
          ELSE /\ adminErr' = msg
               /\ fatalMsg' = AuthFailure(msg)
               /\ pc' = "fatal"
               /\ UNCHANGED <<authValid, userErr>>
    /\ UNCHANGED <<conc, script, cfg, source, store, run, exitCode, page,
                   items, totalPages, idx, stats, verdicts, caches, calls, op,
                   budget, summary, prev>>

----------------------------------------------------------------------------
(* main: the run driver *)

\* the items the source serves on a page
PageItems(src, p) ==
    SubSeq(src, (p - 1) * PerPage + 1,
           IF p * PerPage < Len(src) THEN p * PerPage ELSE Len(src))

\* the values of pagination.totalPages the source may report
TotalPagesVals ==
    {NoTotal} \cup {[present |-> TRUE, n |-> k] : k \in 0..(MaxItems + 1)}

\* the stop rule after the items of a page
LastPage(s, p, tp) ==
    IF GuardsTotalPages(s)
    THEN tp.present /\ tp.n # 0 /\ p >= tp.n
    ELSE tp.present /\ p >= tp.n

\* the counter main increments for a verdict: the last branch of each
\* if-chain counts any other verdict as failed
Counted(s, verdict) ==
    LET known == CASE s = "parties" -> {"created", "updated"}
                   [] s = "provinces" -> {"created", "skipped"}
                   [] s = "provinceStatistics" -> {"updated", "skipped"}
                   [] OTHER -> {"created", "updated", "skipped"}
    IN IF verdict \in known THEN verdict ELSE "failed"

\* main's counting without its final "else stats.failed++"
CountNoFailed(s, st, verdict) ==
    IF s = "nationalStatistics" \/ Counted(s, verdict) = "failed" THEN st
    ELSE [st EXCEPT ![Counted(s, verdict)] = @ + 1]

Count(s, st, verdict) ==
    IF s = "nationalStatistics" THEN st
    ELSE [st EXCEPT ![Counted(s, verdict)] = @ + 1]

\* the message of the error fetchPage / fetchData throws
FetchFailure == "Fetch Failed"

\* what the source may answer: a response whose envelope holds the entity
\* array (its items) or lacks it, and the pagination.totalPages it reports; it
\* answers every request of the behaviour from the same data set
Answers(s, src) ==
    IF src.known THEN {src}
    ELSE {[known |-> TRUE, hasArray |-> TRUE, items |-> i,
           totalPages |-> tp] :
            i \in Sources(s),
            tp \in IF Paginated(s) THEN TotalPagesVals ELSE {NoTotal}}
         \cup {[known |-> TRUE, hasArray |-> FALSE, items |-> <<>>,
                totalPages |-> tp] :
                 tp \in IF s = "nationalStatistics" THEN {}
                        ELSE IF Paginated(s) THEN TotalPagesVals
                        ELSE {NoTotal}}

\* the items fetchPage / fetchData returns for a response: "data.<entity
\* array> || []"
EntityArray(src) == IF src.hasArray THEN src.items ELSE <<>>

\* main without its "if (items.length === 0) break": an empty page is handed
\* to the item loop and the stop rule
FetchNoEmptyCheck ==
    /\ pc = "fetch"
    /\ calls' = [calls EXCEPT !.fetch = @ + 1]
    /\ \/ /\ ~cfg.sourceUrl \/ budget > 0
          /\ fatalMsg' = FetchFailure
          /\ pc' = "fatal"
          /\ budget' = IF cfg.sourceUrl THEN budget - 1 ELSE budget
          /\ UNCHANGED <<source, items, totalPages, idx>>
       \/ /\ cfg.sourceUrl
          /\ \E src \in Answers(script, source) :
                /\ source' = src
                /\ items' = IF Paginated(script)
                            THEN PageItems(EntityArray(src), page)
                            ELSE EntityArray(src)
                /\ totalPages' = src.totalPages
          /\ idx' = 1
          /\ pc' = "sync"
          /\ UNCHANGED <<fatalMsg, budget>>
    /\ UNCHANGED <<conc, script, cfg, store, run, authValid, userErr, adminErr,
                   page, stats, verdicts, caches, op, prev, summary, exitCode>>

\* fetchPage(page) / fetchData() and the code up to the first item: a failed
\* GET throws to main's catch; an empty list ends the loop and the summary is
\* printed
\* fetchPage / fetchData without the "|| []" of its extraction: a response
\* that lacks the entity array is reported as a failed fetch
FetchStrict ==
    /\ pc = "fetch"
    /\ calls' = [calls EXCEPT !.fetch = @ + 1]
    /\ \/ /\ ~cfg.sourceUrl \/ budget > 0
          /\ fatalMsg' = FetchFailure
          /\ pc' = "fatal"
          /\ budget' = IF cfg.sourceUrl THEN budget - 1 ELSE budget
          /\ UNCHANGED <<source, items, totalPages, idx, summary, exitCode>>
       \/ /\ cfg.sourceUrl
          /\ \E src \in Answers(script, source) :
                /\ source' = src
                /\ items' = IF Paginated(script)
                            THEN PageItems(src.items, page)
                            ELSE src.items
                /\ totalPages' = src.totalPages
          /\ idx' = 1
          /\ IF ~source'.hasArray
             THEN /\ fatalMsg' = FetchFailure
                  /\ pc' = "fatal"
                  /\ UNCHANGED <<summary, exitCode>>
             ELSE IF Len(items') = 0
             THEN /\ summary' = summary + 1
                  /\ pc' = "done"
                  /\ exitCode' = "0"
                  /\ UNCHANGED fatalMsg
             ELSE /\ pc' = "sync"
                  /\ UNCHANGED <<summary, exitCode, fatalMsg>>
          /\ UNCHANGED budget
    /\ UNCHANGED <<conc, script, cfg, store, run, authValid, userErr, adminErr,
                   page, stats, verdicts, caches, op, prev>>

Fetch ==
    /\ pc = "fetch"
    /\ calls' = [calls EXCEPT !.fetch = @ + 1]
    /\ \/ /\ ~cfg.sourceUrl \/ budget > 0
          /\ fatalMsg' = FetchFailure
          /\ pc' = "fatal"
          /\ budget' = IF cfg.sourceUrl THEN budget - 1 ELSE budget
          /\ UNCHANGED <<source, items, totalPages, idx, summary, exitCode>>
       \/ /\ cfg.sourceUrl
          /\ \E src \in Answers(script, source) :
                /\ source' = src
                /\ items' = IF Paginated(script)
                            THEN PageItems(EntityArray(src), page)
                            ELSE EntityArray(src)
                /\ totalPages' = src.totalPages
          /\ idx' = 1
          /\ IF Len(items') = 0
             THEN /\ summary' = summary + 1
                  /\ pc' = "done"
                  /\ exitCode' = "0"
             ELSE /\ pc' = "sync"
                  /\ UNCHANGED <<summary, exitCode>>
          /\ UNCHANGED <<fatalMsg, budget>>
    /\ UNCHANGED <<conc, script, cfg, store, run, authValid, userErr, adminErr,
                   page, stats, verdicts, caches, op, prev>>

FaultCount(fl) == Cardinality({k \in DOMAIN fl : fl[k]})

\* which store calls of one syncItem fail, n more failures being allowed
FaultChoices(n) ==
    {fl \in [party : BOOLEAN, province : BOOLEAN, area : BOOLEAN,
             lookup : BOOLEAN, write : BOOLEAN] : FaultCount(fl) <= n}

\* one turn of "for (const item of items)": await syncItem(pb, item), then
\* the counter of its verdict; an error syncItem throws reaches main's catch
SyncItem ==
    /\ pc = "sync"
    /\ idx <= Len(items)
    /\ IF Throws(script, items[idx])
       THEN /\ fatalMsg' = "TypeError"
            /\ pc' = "fatal"
            /\ UNCHANGED <<store, idx, stats, verdicts, caches, calls, op,
                           budget>>
       ELSE \E fl \in FaultChoices(budget) :
               \E r \in {SyncItemResult(script, store, caches, items[idx],
                                       fl)} :
                  /\ r.nfaults = FaultCount(fl)
                  /\ r.verdict = "created" => Len(store) < MaxRecords
                  /\ store' = r.store
                  /\ caches' = r.caches
                  /\ op' = r.op
                  /\ budget' = budget - r.nfaults
                  /\ verdicts' = Append(verdicts, r.verdict)
                  /\ stats' = Count(script, stats, r.verdict)
                  /\ calls' =
                       [calls EXCEPT
                          !.fullList = @ + r.loads,
                          !.lookup = @ + (IF r.op.lookup = "none"
                                          THEN 0 ELSE 1),
                          !.create = @ + (IF r.op.write
                                               \in {"create", "createError"}
                                          THEN 1 ELSE 0),
                          !.update = @ + (IF r.op.write
                                               \in {"update", "updateError"}
                                          THEN 1 ELSE 0)]
                  /\ idx' = idx + 1
                  /\ UNCHANGED <<fatalMsg, pc>>
    /\ UNCHANGED <<conc, script, cfg, source, run, authValid, userErr, adminErr,
                   exitCode, page, items, totalPages, summary, prev>>

\* main's loop without its "page++": the same page is requested again
LoopEndSamePage ==
    /\ pc = "sync"
    /\ idx > Len(items)
    /\ IF Paginated(script) /\ ~LastPage(script, page, totalPages)
       THEN /\ pc' = "fetch"
            /\ UNCHANGED <<summary, exitCode>>
       ELSE /\ summary' = summary + 1
            /\ pc' = "done"
            /\ exitCode' = "0"
    /\ UNCHANGED <<conc, script, cfg, source, store, run, authValid, userErr,
                   adminErr, fatalMsg, items, totalPages, idx, stats,
                   verdicts, caches, calls, op, budget, prev, page>>

\* after the last item of the page: the stop rule, then the next page or the
\* summary and the end of main
LoopEnd ==
    /\ pc = "sync"
    /\ idx > Len(items)
    /\ IF Paginated(script) /\ ~LastPage(script, page, totalPages)
       THEN /\ page' = page + 1
            /\ pc' = "fetch"
            /\ UNCHANGED <<summary, exitCode>>
       ELSE /\ summary' = summary + 1
            /\ pc' = "done"
            /\ exitCode' = "0"
            /\ UNCHANGED page
    /\ UNCHANGED <<conc, script, cfg, source, store, run, authValid, userErr,
                   adminErr, fatalMsg, items, totalPages, idx, stats,
                   verdicts, caches, calls, op, budget, prev>>

\* main's catch block without process.exit(1) in any script
FatalReturns ==
    /\ pc = "fatal"
    /\ pc' = "exited"
    /\ exitCode' = "0"
    /\ UNCHANGED <<conc, script, cfg, source, store, run, authValid, userErr,
                   adminErr, fatalMsg, page, items, totalPages, idx, stats,
                   verdicts, caches, calls, op, budget, summary, prev>>

\* main's catch block: the error is logged, and process.exit(1) is called
\* where the script has that line; elsewhere main returns and the process
\* ends with status 0
Fatal ==
    /\ pc = "fatal"
    /\ pc' = "exited"
    /\ exitCode' = IF ExitsOnFatal(script) THEN "1" ELSE "0"
    /\ UNCHANGED <<conc, script, cfg, source, store, run, authValid, userErr,
                   adminErr, fatalMsg, page, items, totalPages, idx, stats,
                   verdicts, caches, calls, op, budget, summary, prev>>

\* the script is run again: a new process, the same environment, source and
\* store
NextRun ==
    /\ pc \in {"done", "exited"}
    /\ run < MaxRuns
    /\ run' = run + 1
    /\ prev' = pc
    /\ pc' = "load"
    /\ authValid' = FALSE
    /\ userErr' = "none"
    /\ adminErr' = "none"
    /\ fatalMsg' = "none"
    /\ exitCode' = "none"
    /\ page' = 1
    /\ items' = <<>>
    /\ totalPages' = NoTotal
    /\ idx' = 1
    /\ stats' = NoStats
    /\ verdicts' = <<>>
    /\ caches' = NoCaches
    /\ calls' = NoCalls
    /\ op' = NoOp
    /\ summary' = 0
    /\ UNCHANGED <<conc, script, cfg, source, store, budget>>

\* One run of a script, in which store calls and fetches may fail
Next ==
    \/ Load
    \/ Authenticate
    \/ AuthUserResult
    \/ AuthAdminResult
    \/ Fetch
    \/ SyncItem
    \/ LoopEnd
    \/ Fatal

Spec == Init /\ [][Next]_vars

\* Consecutive runs of a script on an unchanged source, in which no store
\* call and no fetch fails
InitRuns ==
    /\ script \in Scripts
    /\ cfg \in {c \in [creds : BOOLEAN, sourceUrl : BOOLEAN] :
                  HasDefaultUrl(script) => c.sourceUrl}
    /\ source = NoSource
    /\ store \in InitStores(script)
    /\ run = 1
    /\ budget = 0
    /\ prev = "none"
    /\ conc = NoConc
    /\ FreshProcess

\* One run of a paginated script to its end, in which no store call and no
\* fetch fails: the process is the only worker and every await of main
\* resumes, so a run that can take a step eventually takes it. The store
\* starts with room for a record per item, so that no create of the run meets
\* the bound on the store
InitFair ==
    /\ InitRuns
    /\ Paginated(script)
    /\ Len(store) + MaxItems <= MaxRecords

SpecFair == InitFair /\ [][Next]_vars /\ WF_vars(Next)

NextRuns == Next \/ NextRun

SpecRuns == InitRuns /\ [][NextRuns]_vars

\* Two scripts that reconcile the same collection run at the same time, as
\* two processes: each is in its syncItem on one item, and its lookup and its
\* write are two requests to the store, between which the other process's
\* requests may be served. No store call fails.
Procs == {1, 2}

ConcurrentPairs ==
    {<<"candidateProfile", "candidatesLegacy">>,
     <<"candidateProfile", "candidateScore">>,
     <<"parties", "nationalParties">>}

NoFaults ==
    [party |-> FALSE, province |-> FALSE, area |-> FALSE, lookup |-> FALSE,
     write |-> FALSE]

\* the payload the process built before its lookup, from the relation ids its
\* own caches resolve
ConcIds(p) ==
    ResolvedIds(conc.proc[p].script,
                ResolvedCaches(conc.proc[p].script, NoCaches,
                               conc.proc[p].item, NoFaults),
                conc.proc[p].item)

ConcPayload(p) == Payload(conc.proc[p].script, conc.proc[p].item, ConcIds(p))

InitConc ==
    /\ \E pair \in ConcurrentPairs :
          conc \in [proc : {pr \in [Procs ->
                               [script : {pair[1], pair[2]},
                                item : ItemsOf(pair[1]) \cup ItemsOf(pair[2]),
                                pc : {"lookup"},
                                found : {[kind |-> "none", id |-> 0]},
                                seen : {<<>>},
                                verdict : {"none"}]] :
                              /\ pr[1].script = pair[1]
                              /\ pr[2].script = pair[2]
                              /\ \A p \in Procs :
                                    pr[p].item \in ItemsOf(pr[p].script)},
                     trace : {<<>>}]
    /\ script = conc.proc[1].script
    /\ cfg = [creds |-> TRUE, sourceUrl |-> TRUE]
    /\ source = NoSource
    /\ store \in {st \in InitStores(script) :
                     Len(st) + Cardinality(Procs) <= MaxRecords}
    /\ run = 1
    /\ budget = 0
    /\ prev = "none"
    /\ FreshProcess

\* getFirstListItem of process p is served: the process keeps the record it
\* was answered
ConcLookup(p) ==
    /\ conc.proc[p].pc = "lookup"
    /\ \E found \in {LookupResult(conc.proc[p].script, store,
                                   conc.proc[p].item, ConcIds(p), FALSE)} :
          conc' = [proc |-> [conc.proc EXCEPT
                               ![p].pc = "write",
                               ![p].found = found,
                               ![p].seen = IF found.id # 0
                                           THEN store[found.id] ELSE <<>>],
                   trace |-> Append(conc.trace, <<p, "lookup">>)]
    /\ UNCHANGED <<script, cfg, source, store, run, pc, authValid, userErr,
                   adminErr, fatalMsg, exitCode, page, items, totalPages, idx,
                   stats, verdicts, caches, calls, op, budget, summary, prev>>

\* the rest of syncItem of process p: isChanged on the record it was
\* answered, then its create or update is served by the store as it is now
ConcWrite(p) ==
    /\ conc.proc[p].pc = "write"
    /\ \E write \in {Decision(conc.proc[p].script,
                               IF conc.proc[p].found.id # 0
                               THEN [store EXCEPT ![conc.proc[p].found.id] =
                                                     conc.proc[p].seen]
                               ELSE store,
                               ConcPayload(p), conc.proc[p].found)} :
          /\ store' = Written(conc.proc[p].script, store,
                              conc.proc[p].found.id, ConcPayload(p), write)
          /\ conc' = [proc |-> [conc.proc EXCEPT
                                  ![p].pc = "done",
                                  ![p].verdict =
                                     Verdict(conc.proc[p].script,
                                             conc.proc[p].found.kind, write)],
                      trace |-> Append(conc.trace, <<p, write>>)]
    /\ UNCHANGED <<script, cfg, source, run, pc, authValid, userErr,
                   adminErr, fatalMsg, exitCode, page, items, totalPages, idx,
                   stats, verdicts, caches, calls, op, budget, summary, prev>>

NextConc == \E p \in Procs : ConcLookup(p) \/ ConcWrite(p)

SpecConc == InitConc /\ [][NextConc]_vars

\* The client of pb.js under repeated calls of authenticate(): the importer
\* calls the exported function again after it returned, and the session may
\* expire between two calls
CallAgain ==
    /\ pc = "fetch"
    /\ calls.authenticate < MaxCalls
    /\ pc' = "auth"
    /\ UNCHANGED <<conc, script, cfg, source, store, run, authValid, userErr,
                   adminErr, fatalMsg, exitCode, page, items, totalPages, idx,
                   stats, verdicts, caches, calls, op, budget, summary, prev>>

Expire ==
    /\ pc = "fetch"
    /\ authValid
    /\ authValid' = FALSE
    /\ UNCHANGED <<conc, script, cfg, source, store, run, pc, userErr, adminErr,
                   fatalMsg, exitCode, page, items, totalPages, idx, stats,
                   verdicts, caches, calls, op, budget, summary, prev>>

NextAuth ==
    \/ Load
    \/ Authenticate
    \/ AuthUserResult
    \/ AuthAdminResult
    \/ CallAgain
    \/ Expire

SpecAuth == InitRuns /\ [][NextAuth]_vars

----------------------------------------------------------------------------
(* Properties *)

\* the verdict of the last syncItem of this run
LastVerdict == verdicts[Len(verdicts)]

\* the natural keys of the items are pairwise distinct
DistinctKeys(s, its) ==
    \A i, j \in 1..Len(its) :
        i # j => IF s = "partylistResults"
                 THEN its[i].party # its[j].party
                 ELSE its[i].key # its[j].key

\* C1: when a run that completed is followed by a second run on the same
\* source and store, no store call failing and the items' natural keys being
\* distinct, the second run creates no record and every verdict of it is
\* 'skipped'.
C1_SecondRunSkipsAll ==
    (run = 2 /\ prev = "done" /\ pc = "done"
       /\ DistinctKeys(script, source.items))
        => /\ stats.created = 0
           /\ \A i \in 1..Len(verdicts) : verdicts[i] = "skipped"

\* C2: when syncItem found the stored record, a compared field of it differed
\* from the payload and the update call did not fail, the verdict is
\* 'updated' and every field of the record outside the compared fields has
\* the value it had before the update.
C2_UpdateChangesOnlyOwnedFields ==
    (Len(verdicts) > 0 /\ op.lookup = "found" /\ op.write # "updateError"
       /\ IsChanged(script, op.before, op.payload))
        => /\ LastVerdict = "updated"
           /\ op.write = "update"
           /\ \A f \in DOMAIN op.before \ ComparedFields(script) :
                 store[op.id][f] = op.before[f]

\* C3: when syncItem had no stored record for the item and no store call
\* failed, an update-only script returns 'skipped' without a write, and a
\* create-capable script returns 'created' after one create call, the key
\* field of the created record carrying the key the payload carried.
C3_MissingRecordSkippedOrCreated ==
    (Len(verdicts) > 0 /\ op.lookup \in {"missing", "none"}
       /\ ~Rejects(script, op.item) /\ op.write # "createError")
        => IF OnMissing(script) = "skip"
           THEN LastVerdict = "skipped" /\ op.write = "none"
           ELSE /\ LastVerdict = "created"
                /\ op.write = "create"
                /\ KeyField(script) # "none"
                     => store[op.id][KeyField(script)]
                          = op.payload[KeyField(script)]

\* C4: a store error of the lookup, the create or the update of an item
\* gives the verdict 'failed'; no error reaches main's catch because of it,
\* and a run that ends after it has printed the summary once and exits with
\* status 0.
C4_StoreErrorGivesFailed ==
    (Len(verdicts) > 0
       /\ (op.lookup = "error"
             \/ op.write \in {"createError", "updateError"}))
        => /\ LastVerdict = "failed"
           /\ pc \in {"sync", "fetch", "done"}
           /\ pc = "done" => (summary = 1 /\ exitCode = "0")

\* C5: syncItem returns one of the four verdicts for every item and throws no
\* error to main.
C5_SyncItemTotal ==
    /\ \A i \in 1..Len(verdicts) :
          verdicts[i] \in {"created", "updated", "skipped", "failed"}
    /\ fatalMsg # "TypeError"

\* C6: a process that ended because authenticate() threw or because its first
\* source fetch failed has exit status 1.
C6_FatalExitsWithOne ==
    (pc = "exited" /\ calls.fetch <= 1
       /\ (fatalMsg = FetchFailure \/ adminErr # "none"))
        => exitCode = "1"

\* C7: a call of authenticate() that finds the session valid returns with
\* the session still valid, having sent no authentication request and thrown
\* no error.
C7_AuthenticateIdempotent ==
    [][(pc = "auth" /\ authValid)
          => /\ pc' = "fetch"
             /\ authValid'
             /\ calls'.auth = calls.auth
             /\ UNCHANGED <<userErr, adminErr, fatalMsg, exitCode>>]_vars

\* the second call of authenticate() returned without a request of its own
C7_Witness ==
    /\ pc = "fetch"
    /\ authValid
    /\ calls.authenticate = 2
    /\ calls.auth = 1

\* C8: without a valid session authenticate() sends the user authentication
\* request first and the admin one only after the user one failed; it returns
\* with a valid session when either succeeds, and throws only after both
\* failed, the thrown message being that of the admin failure.
C8_UserThenAdminFallback ==
    /\ pc = "authUser"
         => (calls.auth = 1 /\ userErr = "none" /\ adminErr = "none")
    /\ pc = "authAdmin"
         => (calls.auth = 2 /\ userErr # "none" /\ adminErr = "none")
    /\ adminErr # "none"
         => (userErr # "none" /\ fatalMsg = AuthFailure(adminErr))
    /\ fatalMsg \notin {"none", FetchFailure, "TypeError"}
         => (userErr # "none" /\ adminErr # "none")
    /\ (calls.auth > 0 /\ pc \notin {"authUser", "authAdmin"}
          /\ adminErr = "none")
         => authValid

\* both attempts failed with different messages
C8_Witness ==
    /\ pc = "fatal"
    /\ userErr = "e1"
    /\ adminErr = "e2"
    /\ fatalMsg = AuthFailure("e2")

\* C9: with the credentials missing the process sends no request of any kind
\* and ends with exit status 1.
C9_MissingCredentialsExit ==
    ~cfg.creds
        => /\ pc \in {"load", "exited"}
           /\ calls = NoCalls
           /\ exitCode = IF pc = "exited" THEN "1" ELSE "none"

\* the process ended at the load of pb.js
C9_Witness ==
    /\ ~cfg.creds
    /\ pc = "exited"
    /\ exitCode = "1"
    /\ calls = NoCalls

\* C10: with the source URL missing no authentication request is sent and no
\* source fetch is attempted.
C10_MissingUrlPreflight ==
    ~cfg.sourceUrl => (calls.auth = 0 /\ calls.fetch = 0)

\* C11: in a paginated script, once a fetched page held no item the run has
\* ended with the summary: that page was the last one fetched, the page
\* counter was not advanced and no item was reconciled after the fetch (the
\* verdicts are those of the items of the earlier pages), whatever totalPages
\* the source reported.
C11_EmptyPageStops ==
    (Paginated(script) /\ source.known /\ items = <<>>)
        => /\ pc = "done"
           /\ summary = 1
           /\ calls.fetch = page
           /\ idx = 1
           /\ Len(verdicts) = Len(source.items)

\* the second page was empty while the source reported a third
C11_Witness ==
    /\ Paginated(script)
    /\ source.known
    /\ items = <<>>
    /\ page = 2
    /\ totalPages.present
    /\ totalPages.n > page
    /\ pc = "done"

\* C12: every paginated script fetches the pages 1, 2, 3, ... in turn and,
\* after the items of a non-empty page, stops exactly when the page number
\* is at least the totalPages reported with that page (an absent totalPages
\* never being reached).
C12_SameStopRule ==
    Paginated(script)
        => /\ page >= 1
           /\ pc = "fetch" => calls.fetch = page - 1
           /\ (pc = "fetch" /\ page > 1)
                => ~(totalPages.present /\ page - 1 >= totalPages.n)
           /\ (pc = "done" /\ items # <<>>)
                => (totalPages.present /\ page >= totalPages.n)

\* C13: in a paginated script, once the fetch of a page has failed the run
\* is in main's catch or has exited with status 1, the failed fetch is the
\* last one, the summary is not printed, and from then on no request is
\* issued and the store stays as the earlier pages left it.
C13_FetchFailureAborts ==
    /\ []((Paginated(script) /\ fatalMsg = FetchFailure)
           => /\ pc \in {"fatal", "exited"}
              /\ summary = 0
              /\ calls.fetch = page
              /\ exitCode = IF pc = "exited" THEN "1" ELSE "none")
    /\ [][(Paginated(script) /\ fatalMsg = FetchFailure)
            => UNCHANGED <<store, calls, summary, verdicts, stats, page>>]_vars

\* the fetch of page 2 failed after page 1 had created a record, which the
\* store still holds when the process has exited
C13_Witness ==
    /\ Paginated(script)
    /\ fatalMsg = FetchFailure
    /\ page = 2
    /\ pc = "exited"
    /\ exitCode = "1"
    /\ op.write = "create"
    /\ Len(store) >= op.id
    /\ store[op.id][KeyField(script)] = op.item.key

\* id is what a cache holding map answers for key: the id the map holds for
\* the key, undefined when it holds none
CachedOrUndefined(map, key, id) ==
    IF \E e \in map : e[1] = key THEN <<key, id>> \in map ELSE id = Undef

\* C14: the relation ids of the payload of the last reconciled item are
\* those the caches hold for the item's relation names and undefined where
\* they hold none; a cache whose load failed is empty and answers undefined;
\* the item then has a verdict other than 'failed' unless its own lookup or
\* write failed, and no error of the resolution reaches main.
C14_ResolutionNeverThrows ==
    /\ Len(verdicts) > 0
         => /\ UsesParty(script)
                 => /\ caches.party.loaded
                    /\ CachedOrUndefined(caches.party.map, op.item.party,
                                         op.payload.party)
                    /\ caches.party.map = {} => op.payload.party = Undef
            /\ UsesProvince(script)
                 => /\ caches.province.loaded
                    /\ CachedOrUndefined(caches.province.map,
                                         op.item.province,
                                         op.payload.province)
                    /\ caches.province.map = {}
                         => op.payload.province = Undef
            /\ (UsesArea(script) /\ caches.area.loaded)
                 => (caches.area.map = {}
                       => op.payload.area \in {Undef, Null})
            /\ (UsesArea(script) /\ Truthy(op.payload.province)
                   /\ Truthy(op.item.x))
                 => /\ caches.area.loaded
                    /\ CachedOrUndefined(caches.area.map,
                                         <<op.payload.province, op.item.x>>,
                                         op.payload.area)
            /\ (UsesParty(script) \/ UsesProvince(script))
                 => (LastVerdict = "failed"
                       <=> (op.lookup = "error"
                              \/ op.write \in {"createError",
                                                "updateError"}))
    /\ (UsesParty(script) \/ UsesProvince(script))
         => (pc = "fatal" => (fatalMsg = FetchFailure \/ adminErr # "none"))

\* the load of the parties failed: two items that name a party the store
\* holds were reconciled without it and neither verdict is 'failed'
C14_Witness ==
    /\ UsesParty(script)
    /\ caches.party.loaded
    /\ caches.party.map = {}
    /\ Len(verdicts) = 2
    /\ verdicts[1] # "failed"
    /\ verdicts[2] # "failed"
    /\ op.item.party = "A"
    /\ op.payload.party = Undef

\* C15: within a run the number of getFullList() calls is the number of
\* caches that are loaded, a cache of a relation the script does not resolve
\* is never loaded, no cache is loaded before the first item is reconciled,
\* the area cache is loaded only by an item whose province resolved, and a
\* loaded cache never changes again, whether its load failed or not.
C15_CacheLoadedOnce ==
    /\ [](/\ calls.fullList
               = Cardinality({r \in {"party", "province", "area"} :
                                caches[r].loaded})
          /\ caches.party.loaded => UsesParty(script)
          /\ caches.province.loaded => UsesProvince(script)
          /\ caches.area.loaded => UsesArea(script)
          /\ Len(verdicts) = 0 => caches = NoCaches
          /\ (Len(verdicts) > 0 /\ UsesParty(script))
               => caches.party.loaded
          /\ (Len(verdicts) > 0 /\ UsesProvince(script))
               => caches.province.loaded)
    /\ [][/\ \A r \in {"party", "province", "area"} :
                caches[r].loaded => caches'[r] = caches[r]
          /\ (~caches.area.loaded /\ caches'.area.loaded)
               => (Truthy(op'.payload.province) /\ Truthy(op'.item.x))]_vars

\* two items were reconciled by the candidate profile sync and each of the
\* three collections was listed once
C15_Witness ==
    /\ script = "candidateProfile"
    /\ Len(verdicts) = 2
    /\ caches.party.loaded
    /\ caches.province.loaded
    /\ caches.area.loaded
    /\ calls.fullList = 3

\* C16: a lookup that answered 'not found' is treated as absence (the item is
\* created or skipped, and is 'failed' only when the create failed), and a
\* lookup that failed otherwise gives the verdict 'failed' with no create and
\* no update for the item.
C16_LookupErrorGivesFailed ==
    Len(verdicts) > 0
        => /\ op.lookup = "missing"
                => /\ op.write \in {"none", "create", "createError"}
                   /\ LastVerdict = "failed" <=> op.write = "createError"
           /\ op.lookup = "error"
                => (LastVerdict = "failed" /\ op.write = "none")

\* the fields a script owns: those its isChanged compares, and those of its
\* payload where it has no isChanged
OwnedFields(s) ==
    IF ComparedFields(s) = {} THEN PayloadFields(s) ELSE ComparedFields(s)

\* C17: when syncItem found the stored record, it issued the update call if
\* and only if some owned field of the record differed from the payload's,
\* and when none differed the verdict is 'skipped' and nothing was written.
C17_UpdateIffOwnedFieldDiffers ==
    (Len(verdicts) > 0 /\ op.lookup = "found")
        => /\ op.write \in {"update", "updateError"}
                <=> (\E f \in OwnedFields(script) :
                        op.before[f] # op.payload[f])
           /\ (\A f \in OwnedFields(script) : op.before[f] = op.payload[f])
                => (LastVerdict = "skipped" /\ op.write = "none")

\* C18: the candidate score sync, the province statistics sync, the national
\* party summary sync and the national statistics sync issue no create call
\* and count no created record.
C18_ScoreSyncsNeverCreate ==
    script \in {"candidateScore", "provinceStatistics", "nationalParties",
                "nationalStatistics"}
        => /\ calls.create = 0
           /\ stats.created = 0
           /\ \A i \in 1..Len(verdicts) : verdicts[i] # "created"

\* the caches hold no id for the party, or for the province, the item names
UnresolvedParty(s, cs, item) ==
    UsesParty(s) /\ ~\E e \in cs.party.map : e[1] = item.party

UnresolvedProvince(s, cs, item) ==
    UsesProvince(s) /\ ~\E e \in cs.province.map : e[1] = item.province

\* C19: an item whose party or province does not resolve is reconciled like
\* any other: the relation field of its payload is null or undefined, its
\* lookup is issued, a record that is missing is created where the script
\* creates, and its verdict is 'failed' only when its lookup or its write
\* failed.
C19_UnresolvedRelationReconciled ==
    (Len(verdicts) > 0
       /\ (UnresolvedParty(script, caches, op.item)
             \/ UnresolvedProvince(script, caches, op.item)))
        => /\ UnresolvedParty(script, caches, op.item)
                => op.payload.party \in {Undef, Null}
           /\ UnresolvedProvince(script, caches, op.item)
                => op.payload.province \in {Undef, Null}
           /\ op.lookup \in {"found", "missing", "error"}
           /\ op.lookup = "missing"
                => op.write \in {"create", "createError"}
           /\ LastVerdict = "failed"
                <=> (op.lookup = "error"
                       \/ op.write \in {"createError", "updateError"})

\* the fields a script compares or writes
TouchedFields(s) == PayloadFields(s) \cup ComparedFields(s)

\* C20: the fields the running script compares or writes and those any other
\* script of the same collection compares or writes have nothing in common
\* but the natural key of the lookup.
C20_OwnedFieldsDisjoint ==
    \A t \in Scripts \ {script} :
        Collection(t) = Collection(script)
            => (TouchedFields(script) \cap TouchedFields(t))
                  \subseteq {KeyField(script)}

\* the parties sync reconciled the only item of its source, no record of
\* 'parties' had the item's name, and the create call did not fail
OnePartyNoRecord ==
    /\ script = "parties"
    /\ source.known
    /\ Len(source.items) = 1
    /\ Len(verdicts) = 1
    /\ op.lookup = "missing"
    /\ op.write # "createError"

\* what the scenario of the parties sync gives but for its payload: the
\* verdict 'created', one create call, no update call, the counters
\* created = 1, updated = 0, failed = 0
OnePartyCreated ==
    /\ LastVerdict = "created"
    /\ op.write = "create"
    /\ calls.create = 1
    /\ calls.update = 0
    /\ stats = [created |-> 1, updated |-> 0, skipped |-> 0, failed |-> 0]

\* C21 (as amended): in the scenario the verdict is 'created', one create
\* call and no update call are issued, the counters are created = 1,
\* updated = 0, failed = 0, and the payload of the create call holds the six
\* fields name, code, abbreviation, color, logoUrl and totalCandidates.
C21_OnePartyCreatedSixFields ==
    OnePartyNoRecord
        => /\ OnePartyCreated
           /\ DOMAIN op.payload
                = {"name", "code", "abbreviation", "color", "logoUrl",
                   "totalCandidates"}
           /\ op.payload.name = op.item.key
           /\ store[op.id].name = op.item.key

\* C21 (as stated): in the scenario the verdict is 'created', one create
\* call and no update call are issued, the counters are created = 1,
\* updated = 0, failed = 0, and the payload holds five fields.
C21_OnePartyCreatedFiveFields ==
    OnePartyNoRecord
        => /\ OnePartyCreated
           /\ Cardinality(DOMAIN op.payload) = 5

\* the run of the scenario has ended
C21_Witness ==
    /\ OnePartyNoRecord
    /\ LastVerdict = "created"
    /\ pc = "done"
    /\ stats.created = 1

\* C22: a response whose envelope lacks the entity array is an empty item
\* list, not an error: the run that received it made one fetch, no store
\* lookup, no cache load and no write, reconciled nothing, left every counter
\* at 0, printed its summary once and completed with exit code 0; a paginated
\* script stops after that one fetch whatever totalPages the response reports
C22_MissingArrayIsEmptyList ==
    (source.known /\ ~source.hasArray) =>
        /\ pc = "done"
        /\ exitCode = "0"
        /\ fatalMsg = "none"
        /\ summary = 1
        /\ page = 1
        /\ calls.fetch = 1
        /\ calls.lookup = 0
        /\ calls.fullList = 0
        /\ calls.create = 0
        /\ calls.update = 0
        /\ stats = NoStats
        /\ verdicts = <<>>

\* a paginated script completed on a response without the entity array that
\* reports more than one page
C22_Witness ==
    /\ source.known
    /\ ~source.hasArray
    /\ Paginated(script)
    /\ source.totalPages.present
    /\ source.totalPages.n > 1
    /\ pc = "done"
    /\ calls.fetch = 1

\* the verdicts syncItem / syncData returns
Verdicts == {"created", "updated", "skipped", "failed"}

\* the number of items reconciled so far with verdict v
Reconciled(v) == Cardinality({i \in 1..Len(verdicts) : verdicts[i] = v})

\* created + updated + skipped + failed of the run's stats
StatsSum == stats.created + stats.updated + stats.skipped + stats.failed

\* the items main has received on the pages fetched so far
FetchedItems ==
    IF ~source.known THEN <<>>
    ELSE IF Paginated(script)
         THEN SubSeq(EntityArray(source), 1,
                     IF page * PerPage < Len(EntityArray(source))
                     THEN page * PerPage ELSE Len(EntityArray(source)))
         ELSE EntityArray(source)

NonEmptyPages ==
    (Len(EntityArray(source)) + PerPage - 1) \div PerPage

\* C24: a paginated run over a source with finitely many non-empty pages
\* ends, whatever totalPages the source reports or omits: it fetches at most
\* one page beyond the last non-empty one, and its k-th fetch requests page k,
\* so the pages 1, 2, 3, ... are fetched at most once and in increasing order
C24_PaginatedRunTerminates ==
    /\ []((Paginated(script) /\ source.known) =>
            calls.fetch <= NonEmptyPages + 1)
    /\ [][(Paginated(script) /\ calls'.fetch # calls.fetch) =>
            /\ calls'.fetch = calls.fetch + 1
            /\ page = calls'.fetch
            /\ page' = page]_vars
    /\ [][page' = page \/ page' = page + 1]_vars
    /\ <>(pc \in {"done", "exited"})

\* a paginated run over two non-empty pages whose source omits totalPages or
\* reports more pages than it has ended after the fetch of the empty third
\* page
C24_Witness ==
    /\ Paginated(script)
    /\ source.known
    /\ NonEmptyPages = 2
    /\ ~source.totalPages.present \/ source.totalPages.n > 2
    /\ pc = "done"
    /\ page = 3
    /\ calls.fetch = 3
    /\ items = <<>>

\* C25: after an item was reconciled with a verdict other than 'failed', the
\* record it corresponds to (the one found or created) holds, for every field
\* of the script's payload, the value the payload carried (as the store keeps
\* it); so a record judged 'skipped' agrees with the source on all payload
\* fields, not only on the compared ones
C25_ConvergesToSource ==
    (Len(verdicts) > 0 /\ LastVerdict # "failed" /\ op.id # 0)
        => \A f \in PayloadFields(script) :
              store[op.id][f] = Stored(store[op.id][f], op.payload[f])

\* the collection holds at most one record per natural key of the script (the
\* field its lookup filters on)
UniqueKeys(s, st) ==
    \A i, j \in 1..Len(st) :
        i # j => st[i][KeyField(s)] # st[j][KeyField(s)]

\* C26: a script that looks records up by a natural key keeps the key unique:
\* no step of any run takes a collection with at most one record per natural
\* key to one with two records of the same key, whatever keys repeat in the
\* fetched list and whether or not the party of a partylist results item
\* resolves
C26_NaturalKeyStaysUnique ==
    [][(KeyField(script) # "none" /\ UniqueKeys(script, store))
          => UniqueKeys(script, store')]_vars

\* C27: the national statistics sync keeps a single record: no step of a run
\* takes the 'national' collection from at most one record to more than one,
\* whether the listing of the first record succeeds, answers 404 or fails
\* otherwise
C27_NationalSingleRecord ==
    [][(script = "nationalStatistics" /\ Len(store) <= 1)
          => Len(store') <= 1]_vars

\* C28: two create-capable scripts at work on the same collection at the same
\* time create no duplicate: in every interleaving of their lookups and
\* writes the collection holds at most one record per natural key
C28_NoConcurrentDuplicates ==
    (conc # NoConc
       /\ <<conc.proc[1].script, conc.proc[2].script>>
             \in {<<"candidateProfile", "candidatesLegacy">>,
                  <<"parties", "nationalParties">>})
        => UniqueKeys(script, store)

\* both syncs found the same record of 'candidates' and finished
BothReconciledOneRecord ==
    /\ conc # NoConc
    /\ conc.proc[1].script = "candidateProfile"
    /\ conc.proc[2].script = "candidateScore"
    /\ \A p \in Procs : conc.proc[p].pc = "done"
    /\ conc.proc[1].found.kind = "found"
    /\ conc.proc[2].found.kind = "found"
    /\ conc.proc[1].found.id = conc.proc[2].found.id

\* the record holds, in every field script p compares, the value p's payload
\* carried (as the store keeps it)
HoldsCompared(p) ==
    \A f \in ComparedFields(conc.proc[p].script) :
        store[conc.proc[p].found.id][f]
            = Stored(store[conc.proc[p].found.id][f], ConcPayload(p)[f])

\* C29: no update is lost between the candidate profile sync and the
\* candidate score sync: when both reconciled the same existing record, in
\* whatever order their lookups and partial updates were served, the record
\* holds the score source's totalVotes, rank and percentage and the profile
\* source's values in the profile fields (title, firstName, lastName,
\* photoUrl, active, party, province, area)
C29_NoLostUpdate ==
    BothReconciledOneRecord => (HoldsCompared(1) /\ HoldsCompared(2))

\* both lookups were served before either update, and both syncs updated the
\* record
C29_Witness ==
    /\ BothReconciledOneRecord
    /\ conc.trace = <<<<1, "lookup">>, <<2, "lookup">>, <<2, "update">>,
                      <<1, "update">>>>
    /\ conc.proc[1].verdict = "updated"
    /\ conc.proc[2].verdict = "updated"

\* the store requests the process has issued
StoreCalls == calls.fullList + calls.lookup + calls.create + calls.update

\* C30: the order of a run. authenticate() is called once and has returned a
\* valid session before any fetch is issued; no store request is issued
\* before the first fetch has returned; the requests of one item (at most
\* one lookup and one write) are all issued and answered in the step that
\* ends with the item's verdict, so before the next item's lookup; and a page
\* is fetched only when every item fetched before has its verdict
C30_RunOrder ==
    /\ [](calls.authenticate <= 1)
    /\ [](calls.fetch > 0 => (calls.authenticate = 1 /\ authValid))
    /\ [](~source.known => StoreCalls = 0)
    /\ [][StoreCalls' # StoreCalls =>
            /\ Len(verdicts') = Len(verdicts) + 1
            /\ calls'.lookup - calls.lookup <= 1
            /\ (calls'.create + calls'.update)
                  - (calls.create + calls.update) <= 1
            /\ calls'.fetch = calls.fetch
            /\ calls'.auth = calls.auth]_vars
    /\ [][calls'.fetch # calls.fetch =>
            /\ calls'.fetch = calls.fetch + 1
            /\ StoreCalls' = StoreCalls
            /\ calls'.auth = calls.auth
            /\ idx > Len(items) \/ calls.fetch = 0]_vars

\* a run that authenticated through the admin fallback, fetched two pages and
\* issued a lookup and a write for each of its two items
C30_Witness ==
    /\ pc = "done"
    /\ calls.authenticate = 1
    /\ calls.auth = 2
    /\ calls.fetch >= 2
    /\ calls.lookup = 2
    /\ calls.create + calls.update = 2
    /\ Len(verdicts) = 2

====
